---- MODULE Spec2Model ----
(***************************************************************************)
(* A model of pyautograd/tensor/tensor.py: the Tensor node type, its       *)
(* mutators (data setter, zero_grad, in-place updates) and the recursive   *)
(* backward walk.                                                          *)
(*                                                                         *)
(* Objects live in heaps indexed by identity: tensors are 1..Len(_data),   *)
(* Python list objects are 1..Len(lists).  lists[1] is the list object     *)
(* created once, when "def __init__" is evaluated, for the default value   *)
(* of the depends_on parameter.                                            *)
(*                                                                         *)
(* A numpy array is [shape, v]: shape is <<>> (0-d) or <<n>> (1-d) and v   *)
(* holds the entries (one entry for a 0-d array).  Optional values are     *)
(* None == <<>> or Some(x) == <<x>>.                                       *)
(*                                                                         *)
(* The client calls the methods of the tensors it constructed.  The Tensor *)
(* a tensor holds in .grad is written by that tensor's own methods only,   *)
(* and is kept as grad[t], the optional array that is its data.            *)
(*                                                                         *)
(* Arrays are kept by value.  ensure_array and the data setter store the   *)
(* ndarray they are given without copying it, and line 122 adds into the   *)
(* accumulator's array in place, so the one case in which the identity of  *)
(* an array matters is a tensor whose data is the array of a gradient      *)
(* accumulator: sharing[t] = n says that t._data is n.grad._data (0: t     *)
(* holds an array of its own).  The arrays of seeds are the client's own.  *)
(***************************************************************************)
EXTENDS Integers, Sequences, FiniteSets, TLC

VARIABLES _data, shape, requires_grad, grad, depends_on, lists, sharing, last, nops

vars == <<_data, shape, requires_grad, grad, depends_on, lists, sharing, last, nops>>

tensorState == <<_data, shape, requires_grad, grad, depends_on, lists, sharing>>

\* ------------------------------------------------------------------ bounds
MaxTensors == 2      \* tensors the client constructs
MaxLen == 2          \* longest 1-d array
MaxDeps == 2         \* longest depends_on list the client supplies
MaxAbs == 4          \* largest magnitude an array entry is followed to
MaxOps == 3          \* calls the client makes on the constructed tensors
MaxNodes == 3        \* tensors of a graph built with the operators

\* the entries of the arrays the client supplies as data, and as seeds
DataValues == {1}

SeedValues == {1}

\* ------------------------------------------------------------------ values
None == <<>>

Some(x) == <<x>>

Tensors == 1..Len(_data)

Abs(x) == IF x < 0 THEN -x ELSE x

RECURSIVE SeqSum(_)
SeqSum(s) == IF s = <<>> THEN 0 ELSE Head(s) + SeqSum(Tail(s))

\* the number of entries of an array of shape sh
Size(sh) == IF sh = <<>> THEN 1 ELSE sh[1]

Scalar(x) == [shape |-> <<>>, v |-> <<x>>]

Vector(s) == [shape |-> <<Len(s)>>, v |-> s]

\* every array with entries in vals: the 0-d ones and the 1-d ones of length 2..MaxLen
Arrays(vals) ==
    {Scalar(x) : x \in vals}
        \cup UNION {{Vector(s) : s \in [1..n -> vals]} : n \in 2..MaxLen}

InRange(a) == \A i \in 1..Len(a.v) : Abs(a.v[i]) <= MaxAbs

\* ------------------------------------------------------------------ numpy
\* numpy's broadcasting rule, for 0-d and 1-d operands
Broadcastable(s1, s2) ==
    \/ s1 = <<>>
    \/ s2 = <<>>
    \/ s1 = s2
    \/ s1[1] = 1
    \/ s2[1] = 1

BroadcastShape(s1, s2) ==
    IF s1 = <<>> THEN s2
    ELSE IF s2 = <<>> THEN s1
    ELSE IF s1[1] = 1 THEN s2 ELSE s1

\* entry i of array a seen through broadcasting
At(a, i) == IF Len(a.v) = 1 THEN a.v[1] ELSE a.v[i]

\* x + y, x - y, x * y on entries
BinOp(op, x, y) ==
    CASE op = "+" -> x + y
      [] op = "-" -> x - y
      [] OTHER -> x * y

\* a (op) b, a new array
Elementwise(op, a, b) ==
    LET sh == BroadcastShape(a.shape, b.shape)
    IN  [shape |-> sh, v |-> [i \in 1..Size(sh) |-> BinOp(op, At(a, i), At(b, i))]]

zeros_like(a) == [shape |-> a.shape, v |-> [i \in 1..Len(a.v) |-> 0]]

\* acc += g with the "+=" of another implementation: a new array, of the
\* broadcast shape, is bound in place of the old one
OutOfPlaceAdd(acc, g) ==
    IF Broadcastable(acc.shape, g.shape)
    THEN [ok |-> TRUE, val |-> Elementwise("+", acc, g)]
    ELSE [ok |-> FALSE, val |-> acc]

\* acc += g with the "+=" of an assignment: acc takes g's entries
OverwriteAdd(acc, g) ==
    IF Broadcastable(acc.shape, g.shape) /\ BroadcastShape(acc.shape, g.shape) = acc.shape
    THEN [ok |-> TRUE,
          val |-> [shape |-> acc.shape, v |-> [i \in 1..Len(acc.v) |-> At(g, i)]]]
    ELSE [ok |-> FALSE, val |-> acc]

\* numpy's acc += g on an ndarray: the sum is written into acc's own buffer, so
\* it raises ValueError (ok = FALSE) unless the broadcast shape is acc's shape
InPlaceAdd(acc, g) ==
    IF Broadcastable(acc.shape, g.shape) /\ BroadcastShape(acc.shape, g.shape) = acc.shape
    THEN [ok |-> TRUE,
          val |-> [shape |-> acc.shape, v |-> [i \in 1..Len(acc.v) |-> acc.v[i] + At(g, i)]]]
    ELSE [ok |-> FALSE, val |-> acc]

\* ------------------------------------------------------------- conversions
\* What the client passes where an Arrayable is expected: a Python number, a
\* Python list or an ndarray, all carried as [kind, shape, v].
Float(x) == [kind |-> "float", shape |-> <<>>, v |-> <<x>>]

List(s) == [kind |-> "list", shape |-> <<>>, v |-> s]

NdArray(a) == [kind |-> "ndarray", shape |-> a.shape, v |-> a.v]

\* np.array(x) of a number is 0-d, of a flat list 1-d
np_array(x) == IF x.kind = "float" THEN Scalar(x.v[1]) ELSE Vector(x.v)

ensure_array(arrayable) ==
    IF arrayable.kind = "ndarray"
    THEN [shape |-> arrayable.shape, v |-> arrayable.v]
    ELSE np_array(arrayable)

\* the numbers, lists and ndarrays the client builds tensors from
Arrayables ==
    {Float(x) : x \in DataValues}
        \cup UNION {{List(s) : s \in [1..n -> DataValues]} : n \in 2..MaxLen}
        \cup {NdArray(a) : a \in Arrays(DataValues)}

\* What the client passes where a Tensorable is expected: a tensor of the heap
\* ([kind |-> "Tensor", id]) or something array-like.  ensure_tensor returns
\* the tensor itself, or a new Tensor(tensorable) that nothing else refers to;
\* only the .data of the result is read by the callers in this file.
TensorRef(t) == [kind |-> "Tensor", shape |-> <<>>, v |-> <<t>>]

ensure_tensor_data(tensorable) ==
    IF tensorable.kind = "Tensor"
    THEN _data[tensorable.v[1]]
    ELSE ensure_array(tensorable)

\* the operands the client passes to the in-place updates: tensors and numbers
Tensorables == {TensorRef(t) : t \in Tensors} \cup {Float(x) : x \in DataValues}

\* ------------------------------------------------------------------- errors
UngradableTensor == "AssertionError"

MissingSeedGradient == "RuntimeError"

NoError == "none"

\* ---------------------------------------------------------------- grad_fns
\* The callables a Dependency may carry.  They are arguments of the
\* constructor: the pass-through of an addition ("id"), the reduction that
\* undoes the broadcast of a 0-d operand ("sum"), and a callable that raises.
GradFns == {"id", "sum", "raise"}

GradFnRaises(f) == f = "raise"

ApplyGradFn(f, g) ==
    CASE f = "id" -> g
      [] f = "sum" -> Scalar(SeqSum(g.v))
      [] OTHER -> g

Dependency(t, f) == [tensor |-> t, grad_fn |-> f]

Dependencies == {Dependency(t, f) : t \in Tensors, f \in GradFns}

\* the lists of dependencies the client passes to the constructor
DependencyLists == UNION {[1..n -> Dependencies] : n \in 0..MaxDeps}

\* ------------------------------------------------------------ observations
\* The last call the client made and how it ended; trace lists, in order, what
\* a backward call did: [kind "acc"] tensor's grad was added into, [kind "fn"]
\* entry idx of tensor's depends_on had its grad_fn evaluated.  fromZero: the
\* backward call started with every gradient it can reach allocated and zero;
\* repeat: it repeats, root and seed, the call before it, which was fromZero.
\* prev, kept for zero_grad calls: the call made just before on the same tensor.
Call(op, self, other, arg, err, trace, fromZero, repeat, prev) ==
    [op |-> op, self |-> self, other |-> other, arg |-> arg, err |-> err,
     trace |-> trace, fromZero |-> fromZero, repeat |-> repeat, prev |-> prev]

Event(kind, t, idx, val) == [kind |-> kind, tensor |-> t, idx |-> idx, val |-> val]

\* ------------------------------------------------------------------ Tensor
\* the entries of self.depends_on
DependsOn(t) == lists[depends_on[t]]

\* the assert compiled away
AssertStripped(t) == FALSE

\* backward's assert (lines 112-114) fails
NotGradable(t) == ~requires_grad[t]

\* backward's "if self.shape == ()" (line 117): the stored shape attribute
IsScalarShaped(t) == shape[t] = <<>>

\* a setter that leaves self.grad alone
KeepGrad(old) == old

\* the data setter's second statement (line 54)
SetterGrad(old) == None

\* a setter that also records the tensor's old value as its lineage
SetDataExtending(t, new_data) ==
    /\ _data' = [_data EXCEPT ![t] = new_data]
    /\ grad' = [grad EXCEPT ![t] = SetterGrad(@)]
    /\ lists' = Append(lists, Append(lists[depends_on[t]], [tensor |-> t, grad_fn |-> "id"]))
    /\ depends_on' = [depends_on EXCEPT ![t] = Len(lists) + 1]
    /\ UNCHANGED <<shape, requires_grad>>

\* the data setter (lines 51-54): the payload is replaced, the gradient dropped;
\* self.shape is assigned in __init__ only
SetData(t, new_data) ==
    /\ _data' = [_data EXCEPT ![t] = new_data]
    /\ grad' = [grad EXCEPT ![t] = SetterGrad(@)]
    /\ UNCHANGED <<shape, requires_grad, depends_on, lists>>

\* a zero_grad that allocates a 0-d zero whatever the data is
ScalarZeroGrad(d) == Some(Scalar(0))

\* who shares whose accumulator after t._data was rebound to an array of owner's
\* accumulator (owner 0: to an array of its own) and t.grad to None
SharingAfterSet(t, owner) ==
    [u \in DOMAIN sharing |->
        IF u = t THEN (IF owner = t THEN 0 ELSE owner)
        ELSE IF sharing[u] = t THEN 0 ELSE sharing[u]]

\* who shares whose accumulator after t.grad was rebound to a new Tensor
SharingAfterZero(t) ==
    [u \in DOMAIN sharing |-> IF sharing[u] = t THEN 0 ELSE sharing[u]]

\* the value zero_grad assigns to self.grad: Tensor(data=np.zeros_like(self.data))
ZeroGradValue(d) == Some(zeros_like(d))

\* the gradient __init__ leaves (lines 42-45)
InitGrad(rg, d) == IF rg THEN ZeroGradValue(d) ELSE None

\* One call self.backward(grad), st = [grad, err, trace] threaded through the
\* walk; an exception leaves st as it was when raised, with err set.
\* Line 122, self.grad.data += grad.data, reads self.grad.data (AttributeError
\* when self.grad is None), adds in place, and hands the same buffer to the
\* data setter of the Tensor self.grad, whose own grad is None already.
RECURSIVE backward(_, _, _)
RECURSIVE backward_deps(_, _, _, _)
\* a loop that leaves out the dependencies whose tensor does not track gradients
backward_deps_tracked_only(st, self, g, i) ==
    IF i > Len(lists[depends_on[self]])
    THEN st
    ELSE LET dependency == lists[depends_on[self]][i]
             st1 == [st EXCEPT !.trace = Append(@, Event("fn", self, i, g))]
         IN  IF ~requires_grad[dependency.tensor]
             THEN backward_deps(st, self, g, i + 1)
             ELSE IF GradFnRaises(dependency.grad_fn)
             THEN [st1 EXCEPT !.err = "Exception"]
             ELSE LET st2 == backward(st1, dependency.tensor,
                                      Some(ApplyGradFn(dependency.grad_fn, g)))
                  IN  IF st2.err # NoError THEN st2
                      ELSE backward_deps(st2, self, g, i + 1)

\* a loop that evaluates the grad_fn of every dependency before it visits any
backward_deps_fns_first(st, self, g, i) ==
    IF i > Len(lists[depends_on[self]])
    THEN st
    ELSE LET deps == lists[depends_on[self]]
             dependency == deps[i]
             st1 == IF i = 1
                    THEN [st EXCEPT !.trace = @ \o [k \in 1..Len(deps) |-> Event("fn", self, k, g)]]
                    ELSE st
         IN  IF GradFnRaises(dependency.grad_fn)
             THEN [st1 EXCEPT !.err = "Exception"]
             ELSE LET st2 == backward(st1, dependency.tensor,
                                      Some(ApplyGradFn(dependency.grad_fn, g)))
                  IN  IF st2.err # NoError THEN st2
                      ELSE backward_deps(st2, self, g, i + 1)

\* a loop that hands each grad_fn the node's accumulated gradient
backward_deps_accumulated(st, self, g, i) ==
    IF i > Len(lists[depends_on[self]])
    THEN st
    ELSE LET dependency == lists[depends_on[self]][i]
             st1 == [st EXCEPT !.trace = Append(@, Event("fn", self, i, g))]
         IN  IF GradFnRaises(dependency.grad_fn)
             THEN [st1 EXCEPT !.err = "Exception"]
             ELSE LET st2 == backward(st1, dependency.tensor,
                                      Some(ApplyGradFn(dependency.grad_fn, st.grad[self][1])))
                  IN  IF st2.err # NoError THEN st2
                      ELSE backward_deps(st2, self, g, i + 1)

\* a loop that returns after its first dependency
backward_deps_first(st, self, g, i) ==
    IF i > 1 \/ i > Len(lists[depends_on[self]])
    THEN st
    ELSE LET dependency == lists[depends_on[self]][i]
             st1 == [st EXCEPT !.trace = Append(@, Event("fn", self, i, g))]
         IN  IF GradFnRaises(dependency.grad_fn)
             THEN [st1 EXCEPT !.err = "Exception"]
             ELSE backward(st1, dependency.tensor,
                           Some(ApplyGradFn(dependency.grad_fn, g)))

\* a walk that propagates into each tensor once: a dependency whose tensor was
\* accumulated into earlier in this call is skipped
backward_deps_once(st, self, g, i) ==
    IF i > Len(lists[depends_on[self]])
    THEN st
    ELSE LET dependency == lists[depends_on[self]][i]
             seen == \E k \in 1..Len(st.trace) :
                         st.trace[k].kind = "acc" /\ st.trace[k].tensor = dependency.tensor
             st1 == [st EXCEPT !.trace = Append(@, Event("fn", self, i, g))]
         IN  IF seen THEN backward_deps(st, self, g, i + 1)
             ELSE IF GradFnRaises(dependency.grad_fn)
             THEN [st1 EXCEPT !.err = "Exception"]
             ELSE LET st2 == backward(st1, dependency.tensor,
                                      Some(ApplyGradFn(dependency.grad_fn, g)))
                  IN  IF st2.err # NoError THEN st2
                      ELSE backward_deps(st2, self, g, i + 1)

\* a backward that allocates a missing accumulator instead of failing on it
backward_allocating(st, self, gradArg) ==
    IF NotGradable(self)
    THEN [st EXCEPT !.err = UngradableTensor]
    ELSE IF gradArg = None /\ ~IsScalarShaped(self)
    THEN [st EXCEPT !.err = MissingSeedGradient]
    ELSE LET g == IF gradArg = None THEN ensure_array(Float(1)) ELSE gradArg[1]
             acc == IF st.grad[self] = None THEN zeros_like(_data[self]) ELSE st.grad[self][1]
         IN  IF ~InPlaceAdd(acc, g).ok
             THEN [st EXCEPT !.err = "ValueError"]
             ELSE backward_deps(
                      [st EXCEPT !.grad[self] = Some(InPlaceAdd(acc, g).val),
                                 !.trace = Append(@, Event("acc", self, 0, g))],
                      self, g, 1)

backward(st, self, gradArg) ==
    IF NotGradable(self)
    THEN [st EXCEPT !.err = UngradableTensor]
    ELSE IF gradArg = None /\ ~IsScalarShaped(self)
    THEN [st EXCEPT !.err = MissingSeedGradient]
    ELSE LET g == IF gradArg = None THEN ensure_array(Float(1)) ELSE gradArg[1]
         IN  IF st.grad[self] = None
             THEN [st EXCEPT !.err = "AttributeError"]
             ELSE IF ~InPlaceAdd(st.grad[self][1], g).ok
             THEN [st EXCEPT !.err = "ValueError"]
             ELSE backward_deps(
                      [st EXCEPT !.grad[self] = Some(InPlaceAdd(@[1], g).val),
                                 !.trace = Append(@, Event("acc", self, 0, g))],
                      self, g, 1)

\* the for loop of lines 123-125, from entry i on
backward_deps(st, self, g, i) ==
    IF i > Len(DependsOn(self))
    THEN st
    ELSE LET dependency == DependsOn(self)[i]
             st1 == [st EXCEPT !.trace = Append(@, Event("fn", self, i, g))]
         IN  IF GradFnRaises(dependency.grad_fn)
             THEN [st1 EXCEPT !.err = "Exception"]
             ELSE LET st2 == backward(st1, dependency.tensor,
                                      Some(ApplyGradFn(dependency.grad_fn, g)))
                  IN  IF st2.err # NoError THEN st2
                      ELSE backward_deps(st2, self, g, i + 1)

\* a call that zeroes, before it walks, every gradient it will not reach
ZeroedFirst(st) ==
    [n \in DOMAIN st.grad |->
        IF \E k \in 1..Len(st.trace) : st.trace[k].kind = "acc" /\ st.trace[k].tensor = n
        THEN st.grad[n]
        ELSE Some(zeros_like(_data[n]))]

\* a call whose failure undoes what the walk had accumulated
RolledBack(st) == IF st.err = NoError THEN st.grad ELSE grad

\* the gradients a backward call leaves: backward has no try or finally, so an
\* exception raised at line 114, 120, 122 or 124 unwinds every frame of the
\* walk with the in-place additions made so far still in the buffers
AfterCall(st) == st.grad

\* the payloads after a backward call: line 122 adds in place, so a tensor
\* whose data is the array of an accumulator sees what was added into it
DataAfterCall(st) ==
    [u \in DOMAIN _data |-> IF sharing[u] # 0 THEN st.grad[sharing[u]][1] ELSE _data[u]]

\* the tensors a walk from t can reach, t included
RECURSIVE Reach(_)
Reach(t) == {t} \cup UNION {Reach(DependsOn(t)[i].tensor) : i \in 1..Len(DependsOn(t))}

IsZero(a) == \A i \in 1..Len(a.v) : a.v[i] = 0

\* every gradient a walk from t can touch is allocated and zero
ZeroGrads(t) ==
    \A n \in Reach(t) : IF grad[n] = None THEN FALSE ELSE IsZero(grad[n][1])

GradsInRange(gr) ==
    \A n \in DOMAIN gr : IF gr[n] = None THEN TRUE ELSE InRange(gr[n][1])

\* ----------------------------------------------------------------- actions
Init ==
    /\ _data = <<>>
    /\ shape = <<>>
    /\ requires_grad = <<>>
    /\ grad = <<>>
    /\ depends_on = <<>>
    /\ lists = << <<>> >>
    /\ sharing = <<>>
    /\ last = Call("none", 0, 0, None, NoError, <<>>, FALSE, FALSE, "none")
    /\ nops = 0

\* the client may still construct a tensor, may still make a call
Constructing == nops = 0 /\ Len(_data) < MaxTensors

Calling == nops < MaxOps

\* Tensor(data, requires_grad) and Tensor(data, requires_grad, depends_on):
\* without the third argument self.depends_on is the list object of the
\* default value, lists[1]; with it, the list object the caller built.
\* The constructor reads no other tensor, so it commutes with the calls made
\* on the tensors that exist: the client constructs first (Next lets it
\* construct while nops = 0).
New(data, rg, explicit, deps) ==
    /\ _data' = Append(_data, ensure_array(data))
    /\ requires_grad' = Append(requires_grad, rg)
    /\ IF explicit
       THEN /\ lists' = Append(lists, deps)
            /\ depends_on' = Append(depends_on, Len(lists) + 1)
       ELSE /\ deps = <<>>
            /\ lists' = lists
            /\ depends_on' = Append(depends_on, 1)
    /\ shape' = Append(shape, ensure_array(data).shape)
    /\ grad' = Append(grad, InitGrad(rg, ensure_array(data)))
    /\ sharing' = Append(sharing, 0)
    /\ last' = Call("__init__", Len(_data) + 1, 0, None, NoError, <<>>, FALSE, FALSE, "none")
    /\ UNCHANGED nops

\* t.data = new_data
data_setter(t, new_data) ==
    /\ Calling
    /\ SetData(t, new_data)
    /\ sharing' = SharingAfterSet(t, 0)
    /\ last' = Call("data", t, 0, Some(new_data), NoError, <<>>, FALSE, FALSE, "none")
    /\ nops' = nops + 1

\* Tensor(n.grad.data, requires_grad): ensure_array returns the ndarray it is
\* given (lines 14-15), so the new tensor's data is the accumulator's array
NewFromGrad(n, rg) ==
    /\ grad[n] # None
    /\ _data' = Append(_data, grad[n][1])
    /\ requires_grad' = Append(requires_grad, rg)
    /\ lists' = lists
    /\ depends_on' = Append(depends_on, 1)
    /\ shape' = Append(shape, grad[n][1].shape)
    /\ grad' = Append(grad, InitGrad(rg, grad[n][1]))
    /\ sharing' = Append(sharing, n)
    /\ last' = Call("__init__", Len(_data) + 1, n, None, NoError, <<>>, FALSE, FALSE, "none")
    /\ UNCHANGED nops

\* t.data = n.grad.data: the setter stores the array it is given (line 53)
data_setter_from_grad(t, n) ==
    /\ Calling
    /\ grad[n] # None
    /\ SetData(t, grad[n][1])
    /\ sharing' = SharingAfterSet(t, n)
    /\ last' = Call("data", t, n, Some(grad[n][1]), NoError, <<>>, FALSE, FALSE, "none")
    /\ nops' = nops + 1

zero_grad(t) ==
    /\ Calling
    /\ grad' = [grad EXCEPT ![t] = ZeroGradValue(_data[t])]
    /\ sharing' = SharingAfterZero(t)
    /\ UNCHANGED <<_data, shape, requires_grad, depends_on, lists>>
    /\ last' = Call("zero_grad", t, 0, None, NoError, <<>>, FALSE, FALSE,
                    IF last.self = t /\ last.err = NoError THEN last.op ELSE "none")
    /\ nops' = nops + 1

\* t += other, t -= other, t *= other: numpy computes the new array (or raises
\* ValueError on operands that do not broadcast), then the data setter runs
InPlace(name, op, t, other) ==
    LET operand == ensure_tensor_data(other)
        target == IF other.kind = "Tensor" THEN other.v[1] ELSE 0
    IN  /\ Calling
        /\ nops' = nops + 1
        /\ IF Broadcastable(_data[t].shape, operand.shape)
           THEN /\ InRange(Elementwise(op, _data[t], operand))
                /\ SetData(t, Elementwise(op, _data[t], operand))
                /\ sharing' = SharingAfterSet(t, 0)
                /\ last' = Call(name, t, target, None, NoError, <<>>, FALSE, FALSE, "none")
           ELSE /\ UNCHANGED tensorState
                /\ last' = Call(name, t, target, None, "ValueError", <<>>, FALSE, FALSE, "none")

__iadd__(t, other) == InPlace("__iadd__", "+", t, other)

__isub__(t, other) == InPlace("__isub__", "-", t, other)

__imul__(t, other) == InPlace("__imul__", "*", t, other)

\* an add whose grad_fn sums the upstream gradient whatever the shapes are
AlwaysSummed(inputShape, resultShape) == "sum"

\* the grad_fn _add attaches to an input: the upstream gradient, summed over
\* the axes broadcasting added to the input's shape
AddGradFn(inputShape, resultShape) == IF inputShape = resultShape THEN "id" ELSE "sum"

\* c = t + other (lines 62-65): _add(self, ensure_tensor(other)) builds the
\* result with the constructor, from the sum of the payloads, with
\* requires_grad true iff an input tracks gradients and one Dependency per
\* tracking input, self first.  A float operand becomes an untracked tensor
\* nothing refers to afterwards.
__add__(t, other) ==
    LET operand == ensure_tensor_data(other)
        target == IF other.kind = "Tensor" THEN other.v[1] ELSE 0
        tracked == IF other.kind = "Tensor" THEN requires_grad[other.v[1]] ELSE FALSE
        result == Elementwise("+", _data[t], operand)
        deps == (IF requires_grad[t]
                 THEN <<Dependency(t, AddGradFn(_data[t].shape, result.shape))>>
                 ELSE <<>>)
                \o (IF tracked
                    THEN <<Dependency(target, AddGradFn(operand.shape, result.shape))>>
                    ELSE <<>>)
    IN  IF Broadcastable(_data[t].shape, operand.shape)
        THEN /\ InRange(result)
             /\ New(NdArray(result), requires_grad[t] \/ tracked, TRUE, deps)
        ELSE /\ UNCHANGED <<tensorState, nops>>
             /\ last' = Call("__add__", t, target, None, "ValueError", <<>>, FALSE, FALSE, "none")

\* t.backward() and t.backward(Tensor(seed))
Backward(t, seed) ==
    LET st == backward([grad |-> grad, err |-> NoError, trace |-> <<>>], t, seed)
    IN  /\ Calling
        /\ nops' = nops + 1
        /\ GradsInRange(st.grad)
        /\ grad' = AfterCall(st)
        /\ _data' = DataAfterCall(st)
        /\ UNCHANGED <<shape, requires_grad, depends_on, lists, sharing>>
        /\ last' = Call("backward", t, 0, seed, st.err, st.trace, ZeroGrads(t),
                        /\ last.op = "backward"
                        /\ last.fromZero
                        /\ last.self = t
                        /\ last.arg = seed,
                        "none")

Seeds == {None} \cup {Some(a) : a \in Arrays(SeedValues)}

Next ==
    \/ Constructing /\ \E data \in Arrayables, rg \in BOOLEAN : New(data, rg, FALSE, <<>>)
    \/ Constructing /\ \E data \in Arrayables, rg \in BOOLEAN, deps \in DependencyLists :
           New(data, rg, TRUE, deps)
    \/ Calling /\ \E t \in Tensors, new_data \in Arrays(DataValues) : data_setter(t, new_data)
    \/ Calling /\ \E t \in Tensors : zero_grad(t)
    \/ Calling /\ \E t \in Tensors, other \in Tensorables : __iadd__(t, other)
    \/ Calling /\ \E t \in Tensors, other \in Tensorables : __isub__(t, other)
    \/ Calling /\ \E t \in Tensors, other \in Tensorables : __imul__(t, other)
    \/ Calling /\ \E t \in Tensors, seed \in Seeds : Backward(t, seed)

Spec == Init /\ [][Next]_vars

\* The client builds graphs the way the library intends: leaves from the
\* constructor, results from the + operator; then it runs backward passes.
Building == nops = 0 /\ Len(_data) < MaxNodes

NextGraph ==
    \/ Building /\ \E data \in Arrayables, rg \in BOOLEAN : New(data, rg, FALSE, <<>>)
    \/ Building /\ \E t \in Tensors, other \in Tensorables : __add__(t, other)
    \/ Calling /\ \E t \in Tensors, seed \in Seeds : Backward(t, seed)

SpecGraph == Init /\ [][NextGraph]_vars

\* The client also keeps hold of gradient arrays: it builds tensors on the
\* array of an accumulator and assigns such an array as a tensor's data.
NextShared ==
    \/ Constructing /\ \E data \in Arrayables, rg \in BOOLEAN : New(data, rg, FALSE, <<>>)
    \/ Constructing /\ \E data \in Arrayables, rg \in BOOLEAN, deps \in DependencyLists :
           New(data, rg, TRUE, deps)
    \/ Constructing /\ \E n \in Tensors, rg \in BOOLEAN : NewFromGrad(n, rg)
    \/ Calling /\ \E t \in Tensors, n \in Tensors : data_setter_from_grad(t, n)
    \/ Calling /\ \E t \in Tensors : zero_grad(t)
    \/ Calling /\ \E t \in Tensors, seed \in Seeds : Backward(t, seed)

SpecShared == Init /\ [][NextShared]_vars

\* ------------------------------------------------------------------ claims
\* the in-place update operators
InPlaceOps == {"__iadd__", "__isub__", "__imul__"}

\* the seed a backward call without argument works with
DefaultSeed == Scalar(1)

\* C1: backward on a tensor whose requires_grad is false fails with the
\* ungradable-tensor error and changes no tensor's data, grad or depends_on.
C1_UngradableFailsUntouched ==
    [][(last'.op = "backward" /\ ~requires_grad[last'.self])
           => (last'.err = UngradableTensor /\ last'.trace = <<>>
               /\ UNCHANGED tensorState)]_vars

\* C1 witness: backward has failed so on an untracked tensor that holds a
\* gradient (zero_grad was called on it) and has dependencies to walk.
C1_Witness ==
    /\ last.op = "backward"
    /\ last.err = UngradableTensor
    /\ ~requires_grad[last.self]
    /\ grad[last.self] # None
    /\ DependsOn(last.self) # <<>>

\* C2, as claimed: a backward call without seed on a tracked tensor passes the
\* seed check, with the scalar 1 as seed, exactly when the tensor's data is
\* scalar-shaped; on every other tracked tensor it fails with the missing-seed
\* error and no grad was accumulated into.
C2_DefaultSeedIffScalarData ==
    (last.op = "backward" /\ last.arg = None /\ requires_grad[last.self])
        => IF _data[last.self].shape = <<>>
           THEN /\ last.err # MissingSeedGradient
                /\ last.trace # <<>> => last.trace[1].val = DefaultSeed
           ELSE /\ last.err = MissingSeedGradient
                /\ last.trace = <<>>

\* an optional array with every entry doubled
Twice(g) ==
    IF g = None THEN None
    ELSE Some([shape |-> g[1].shape, v |-> [i \in 1..Len(g[1].v) |-> 2 * g[1].v[i]]])

\* C3: two backward calls in a row on the same root with the same seed, the
\* first started from zero gradients, leave every reachable gradient at twice
\* what the first call left.
C3_SecondCallDoubles ==
    [][(last'.op = "backward" /\ last'.repeat /\ nops' = nops + 1)
           => \A n \in Reach(last'.self) : grad'[n] = Twice(grad[n])]_vars

\* C3 witness: the second of two such calls has completed and a dependency of
\* the root holds a non-zero gradient.
C3_Witness ==
    /\ last.op = "backward"
    /\ last.repeat
    /\ last.err = NoError
    /\ \E n \in Reach(last.self) \ {last.self} : ~IsZero(grad[n][1])

\* the dependency paths from t to n, each the list of depends_on indices taken
RECURSIVE Paths(_, _)
Paths(t, n) ==
    (IF t = n THEN {<<>>} ELSE {})
        \cup UNION {{<<i>> \o p : p \in Paths(DependsOn(t)[i].tensor, n)} :
                        i \in 1..Len(DependsOn(t))}

\* the grad_fns along path p from t, composed and applied to g
RECURSIVE PathGrad(_, _, _)
PathGrad(t, p, g) ==
    IF p = <<>> THEN g
    ELSE PathGrad(DependsOn(t)[Head(p)].tensor, Tail(p),
                  ApplyGradFn(DependsOn(t)[Head(p)].grad_fn, g))

\* acc plus, entry by entry, the contribution of every path in ps
RECURSIVE PlusPaths(_, _, _, _)
PlusPaths(acc, t, ps, g) ==
    IF ps = {} THEN acc
    ELSE LET p == CHOOSE q \in ps : TRUE
             c == PathGrad(t, p, g)
         IN  PlusPaths([shape |-> acc.shape,
                        v |-> [i \in 1..Len(acc.v) |-> acc.v[i] + At(c, i)]],
                       t, ps \ {p}, g)

Visits(trace, n) ==
    Cardinality({k \in 1..Len(trace) : trace[k].kind = "acc" /\ trace[k].tensor = n})

SeedOf(call) == IF call.arg = None THEN DefaultSeed ELSE call.arg[1]

C5_SetterDropsGrad ==
    [][(last'.op = "data" /\ nops' = nops + 1)
           => /\ _data'[last'.self] = last'.arg[1]
              /\ grad'[last'.self] = None
              /\ requires_grad' = requires_grad
              /\ depends_on' = depends_on
              /\ lists' = lists]_vars

\* C5 witness: the setter has run on a tensor that tracks gradients, whose
\* grad was allocated at construction.
C5_Witness ==
    /\ last.op = "data"
    /\ requires_grad[last.self]
    /\ grad[last.self] = None

\* C6, as claimed: after a += b, a -= b or a *= b, a.grad is none, a.depends_on
\* is the same list with the same entries, b's data, grad and depends_on are
\* unchanged, and no dependency edge was added anywhere.
C6_InPlaceLeavesOperand ==
    [][(last'.op \in InPlaceOps /\ last'.err = NoError /\ nops' = nops + 1)
           => /\ grad'[last'.self] = None
              /\ depends_on' = depends_on
              /\ lists' = lists
              /\ last'.other # 0
                    => /\ _data'[last'.other] = _data[last'.other]
                       /\ grad'[last'.other] = grad[last'.other]]_vars

\* C6, amended: the same, with b's data and grad unchanged when b is a tensor
\* other than a.
C6_InPlaceBreaksGraph ==
    [][(last'.op \in InPlaceOps /\ last'.err = NoError /\ nops' = nops + 1)
           => /\ grad'[last'.self] = None
              /\ depends_on' = depends_on
              /\ lists' = lists
              /\ (last'.other # 0 /\ last'.other # last'.self)
                    => /\ _data'[last'.other] = _data[last'.other]
                       /\ grad'[last'.other] = grad[last'.other]]_vars

\* C6 witness: an in-place update by another tensor has run on a tensor that
\* tracks gradients and has dependencies, and the operand holds a gradient.
C6_Witness ==
    /\ last.op \in InPlaceOps
    /\ last.err = NoError
    /\ last.other # 0
    /\ last.other # last.self
    /\ requires_grad[last.self]
    /\ grad[last.self] = None
    /\ DependsOn(last.self) # <<>>
    /\ grad[last.other] # None

\* C7, as claimed: every tensor's shape attribute is the shape of its data.
C7_ShapeIsDataShape == \A t \in Tensors : shape[t] = _data[t].shape

\* C8, as claimed: a tensor with requires_grad false has no gradient.
C8_UntrackedHasNoGrad == \A t \in Tensors : ~requires_grad[t] => grad[t] = None

\* C9: a gradient that is present has the shape of the tensor's data.
C9_GradShapeIsDataShape ==
    \A t \in Tensors :
        grad[t] # None
            => /\ grad[t][1].shape = _data[t].shape
               /\ Len(grad[t][1].v) = Len(_data[t].v)

\* C9 witness: a backward call was given a seed that does not fit the 0-d
\* accumulator of a tensor it reached, and failed there.
C9_Witness ==
    /\ last.op = "backward"
    /\ last.err = "ValueError"
    /\ \E t \in Tensors : grad[t] # None /\ grad[t][1].shape = <<>> /\ _data[t].shape = <<>>
    /\ \E t \in Tensors : grad[t] # None /\ grad[t][1].shape # <<>> /\ ~IsZero(grad[t][1])

\* C10, as claimed: no two tensors share a dependency container, and a tensor
\* built without an explicit depends_on has an empty dependency list.
C10_FreshContainers ==
    /\ \A t1, t2 \in Tensors : t1 # t2 => depends_on[t1] # depends_on[t2]
    /\ \A t \in Tensors : depends_on[t] = 1 => DependsOn(t) = <<>>

\* C11: zero_grad leaves self.grad an array of zeros of the shape of the data,
\* whatever grad held before; it changes no data, requires_grad, depends_on or
\* other tensor's grad; a zero_grad that directly follows a zero_grad on the
\* same tensor changes nothing at all.
C11_ZeroGradResets ==
    [][(last'.op = "zero_grad" /\ nops' = nops + 1)
       => LET t == last'.self
          IN  /\ grad'[t] # None
              /\ grad'[t][1].shape = _data[t].shape
              /\ Len(grad'[t][1].v) = Size(_data[t].shape)
              /\ IsZero(grad'[t][1])
              /\ \A n \in Tensors \ {t} : grad'[n] = grad[n]
              /\ UNCHANGED <<_data, requires_grad, depends_on, lists>>
              /\ (last'.prev = "zero_grad" => UNCHANGED tensorState)]_vars

\* zero_grad ran twice in a row on a tensor holding a vector
C11_Witness ==
    /\ last.op = "zero_grad"
    /\ last.prev = "zero_grad"
    /\ _data[last.self].shape # <<>>
    /\ grad[last.self] = Some(zeros_like(_data[last.self]))

\* the events of a walk from t with seed g on which nothing fails, in order
RECURSIVE FullWalk(_, _)
RECURSIVE FullWalkFrom(_, _, _)
FullWalk(t, g) == <<Event("acc", t, 0, g)>> \o FullWalkFrom(t, g, 1)

FullWalkFrom(t, g, i) ==
    IF i > Len(DependsOn(t)) THEN <<>>
    ELSE <<Event("fn", t, i, g)>>
             \o FullWalk(DependsOn(t)[i].tensor, ApplyGradFn(DependsOn(t)[i].grad_fn, g))
             \o FullWalkFrom(t, g, i + 1)

\* acc plus, entry by entry, what the events of trace added into tensor n
RECURSIVE PlusEvents(_, _, _)
PlusEvents(acc, trace, n) ==
    IF trace = <<>> THEN acc
    ELSE LET e == Head(trace)
         IN  IF e.kind = "acc" /\ e.tensor = n
             THEN PlusEvents([shape |-> acc.shape,
                              v |-> [i \in 1..Len(acc.v) |-> acc.v[i] + At(e.val, i)]],
                             Tail(trace), n)
             ELSE PlusEvents(acc, Tail(trace), n)

\* C12: a backward call that fails is not rolled back: what it did is a proper
\* prefix of the walk; every accumulation of that prefix is in the gradients
\* after the call, and a tensor the prefix did not accumulate into, the one at
\* the failure point included, has the gradient it had before.
C12_FailedWalkKeepsAccumulated ==
    [][(last'.op = "backward" /\ last'.err # NoError /\ nops' = nops + 1)
           => LET trace == last'.trace
                  walk == FullWalk(last'.self, SeedOf(last'))
              IN  /\ Len(trace) < Len(walk)
                  /\ trace = SubSeq(walk, 1, Len(trace))
                  /\ \A n \in Tensors :
                         IF Visits(trace, n) = 0
                         THEN grad'[n] = grad[n]
                         ELSE /\ grad[n] # None
                              /\ grad'[n] = Some(PlusEvents(grad[n][1], trace, n))
                              /\ grad'[n] # grad[n]]_vars

\* a backward call failed (a grad_fn raised or a nested call raised) after it
\* had accumulated into its root and into a dependency, with a visit of the
\* walk left over
C12_Witness ==
    /\ last.op = "backward"
    /\ last.err \in {"Exception", "AttributeError", "ValueError", UngradableTensor}
    /\ Visits(last.trace, last.self) = 1
    /\ \E n \in Tensors \ {last.self} : Visits(last.trace, n) = 1 /\ ~IsZero(grad[n][1])
    /\ Len(FullWalk(last.self, SeedOf(last))) > Len(last.trace)

\* c is the tensor a + b built: tracked inputs of one shape, one Dependency each
IsSumOf(c, a, b) ==
    /\ requires_grad[a] /\ requires_grad[b]
    /\ _data[a].shape = _data[b].shape
    /\ _data[c] = Elementwise("+", _data[a], _data[b])
    /\ Len(DependsOn(c)) = 2
    /\ DependsOn(c)[1].tensor = a
    /\ DependsOn(c)[2].tensor = b

\* a, b and c hold zero gradients and seed has their shape
ZeroAndSeeded(c, a, b, seed) ==
    /\ seed # None
    /\ seed[1].shape = _data[a].shape
    /\ \A n \in {a, b, c} : IF grad[n] = None THEN FALSE ELSE IsZero(grad[n][1])

WalkCompletes(t, seed) ==
    backward([grad |-> grad, err |-> NoError, trace |-> <<>>], t, seed).err = NoError

EdgesLeadBack(d, l) ==
    \A t \in 1..Len(d) : \A i \in 1..Len(l[d[t]]) : l[d[t]][i].tensor < t

\* the walk recorded in trace descends along edges only, and turns back only
\* at tensors without dependencies or after a tensor's last dependency
Descends(trace) ==
    \A k \in 1..Len(trace) :
        LET e == trace[k]
        IN  IF e.kind = "fn"
            THEN k < Len(trace) =>
                     /\ trace[k + 1].kind = "acc"
                     /\ trace[k + 1].tensor = DependsOn(e.tensor)[e.idx].tensor
                     /\ trace[k + 1].tensor < e.tensor
            ELSE IF DependsOn(e.tensor) = <<>>
                 THEN k < Len(trace) => trace[k + 1].kind = "fn" /\ trace[k + 1].tensor > e.tensor
                 ELSE k < Len(trace) /\ trace[k + 1].kind = "fn"
                          /\ trace[k + 1].tensor = e.tensor /\ trace[k + 1].idx = 1

\* C14: the graph is acyclic and stays as constructed: every dependency refers
\* to a tensor constructed before its node, no step changes the dependencies
\* of an existing tensor, and so every backward call ends, completed or failed,
\* within the finite walk of its root, each descent of a completed call ending
\* at a tensor without dependencies.
C14_AcyclicAndFinite ==
    [][/\ EdgesLeadBack(depends_on', lists')
       /\ \A t \in Tensors : lists'[depends_on'[t]] = lists[depends_on[t]]
       /\ (last'.op = "backward" /\ nops' = nops + 1)
              => /\ last'.err \in {NoError, UngradableTensor, MissingSeedGradient,
                                    "AttributeError", "ValueError", "Exception"}
                 /\ Len(last'.trace) <= Len(FullWalk(last'.self, SeedOf(last')))
                 /\ (last'.err = NoError =>
                         /\ Descends(last'.trace)
                         /\ DependsOn(last'.trace[Len(last'.trace)].tensor) = <<>>)]_vars

\* a backward call completed on a root with two dependencies after two other
\* calls had been made on the tensors
C14_Witness ==
    /\ last.op = "backward"
    /\ last.err = NoError
    /\ nops = MaxOps
    /\ Len(DependsOn(last.self)) = 2
    /\ Len(last.trace) = 5

\* the gradient passed into the call on tensor t that is running at event k
\* of trace: what the latest accumulation into t before k added
RECURSIVE PassedIn(_, _, _)
PassedIn(trace, t, k) ==
    IF trace[k].kind = "acc" /\ trace[k].tensor = t THEN trace[k].val
    ELSE PassedIn(trace, t, k - 1)

C16_DepthFirstInOrder ==
    [][(last'.op = "backward" /\ nops' = nops + 1)
           => LET trace == last'.trace
                  walk == FullWalk(last'.self, SeedOf(last'))
              IN  /\ Len(trace) <= Len(walk)
                  /\ trace = SubSeq(walk, 1, Len(trace))
                  /\ last'.err = NoError => trace = walk]_vars

\* a backward call completed on a root with two dependencies, the first of
\* which has dependencies of its own: its sub-walk lies between the root's
\* two grad_fn evaluations
C16_Witness ==
    /\ last.op = "backward"
    /\ last.err = NoError
    /\ Len(DependsOn(last.self)) = 2
    /\ Len(DependsOn(DependsOn(last.self)[1].tensor)) >= 1
    /\ Len(last.trace) >= 7
    /\ last.trace[2] = Event("fn", last.self, 1, SeedOf(last))
    /\ last.trace[4].kind = "fn" /\ last.trace[4].tensor = DependsOn(last.self)[1].tensor

\* C17 as stated: a backward call, completed or failed, leaves every tensor's
\* data, shape, requires_grad and depends_on as they were, and the grad of
\* every tensor the root does not reach.
C17_BackwardChangesGradOnly ==
    [][(last'.op = "backward" /\ nops' = nops + 1)
           => /\ UNCHANGED <<_data, shape, requires_grad, depends_on, lists>>
              /\ \A n \in Tensors \ Reach(last'.self) : grad'[n] = grad[n]]_vars

\* C17 amended: a backward call, completed or failed, leaves every tensor's
\* shape, requires_grad and depends_on as they were, and the grad of every
\* tensor the root does not reach; it leaves a tensor's data as it was unless
\* that data is the array of a gradient accumulator the call added into, and
\* then the data is what the accumulator holds.
C17_BackwardChangesGradArraysOnly ==
    [][(last'.op = "backward" /\ nops' = nops + 1)
           => /\ UNCHANGED <<shape, requires_grad, depends_on, lists>>
              /\ \A n \in Tensors \ Reach(last'.self) : grad'[n] = grad[n]
              /\ \A u \in Tensors :
                     IF sharing[u] # 0 /\ Visits(last'.trace, sharing[u]) > 0
                     THEN _data'[u] = grad'[sharing[u]][1] /\ _data'[u] # _data[u]
                     ELSE _data'[u] = _data[u]]_vars

\* a backward call ended on a root the other tensor is not reachable from;
\* that tensor has a gradient of its own, untouched, and its data, the array
\* of the root's accumulator, holds what the call added
C17_Witness ==
    /\ last.op = "backward"
    /\ Visits(last.trace, last.self) = 1
    /\ \E u \in Tensors \ Reach(last.self) :
           /\ sharing[u] = last.self
           /\ grad[u] # None
           /\ _data[u] = grad[last.self][1]
           /\ ~IsZero(_data[u])

\* the calls that reassign a tensor's data
DataOps == {"data"} \cup InPlaceOps

\* gradient g can be added in place into an array of shape sh
Fits(g, sh) == g.shape = <<>> \/ g.shape = sh

\* a tracked tensor without accumulator (its data was reassigned, and zero_grad
\* has not run since) stops every backward call that reaches it: the call
\* fails at that tensor, which stays without accumulator
StaleStops ==
    \A n \in Tensors :
        (requires_grad[n] /\ grad[n] = None)
            => /\ grad'[n] = None
               /\ Visits(last'.trace, n) = 0
               /\ n \in Reach(last'.self) => last'.err # NoError
               /\ n = last'.self =>
                      /\ last'.trace = <<>>
                      /\ last'.err \in {"AttributeError", MissingSeedGradient}
               /\ \A k \in 1..Len(last'.trace) :
                      LET e == last'.trace[k]
                      IN  (/\ e.kind = "fn"
                           /\ DependsOn(e.tensor)[e.idx].tensor = n
                           /\ ~GradFnRaises(DependsOn(e.tensor)[e.idx].grad_fn))
                              => k = Len(last'.trace) /\ last'.err = "AttributeError"

\* the step is a backward call on the tracked tensor whose data was
\* reassigned and on which zero_grad was called since, a call that was in
\* order for the tensor as constructed: without seed if its shape attribute
\* is (), else with a seed that can be added into an array of that shape
AfterReassignAndZero ==
    /\ last.op = "zero_grad"
    /\ last.prev \in DataOps
    /\ last'.op = "backward"
    /\ nops' = nops + 1
    /\ last'.self = last.self
    /\ requires_grad[last.self]
    /\ (last'.arg # None \/ IsScalarShaped(last.self))
    /\ Fits(SeedOf(last'), shape[last.self])

\* the call added its seed into the root's zeroed accumulator
AccumulatedFromZero ==
    /\ Visits(last'.trace, last'.self) = 1
    /\ grad'[last'.self] =
           Some(PlusEvents(zeros_like(_data[last'.self]), last'.trace, last'.self))
    /\ ~IsZero(grad'[last'.self][1])

C19_NoDependencySkipped ==
    [][(last'.op = "backward" /\ nops' = nops + 1)
           => LET trace == last'.trace
              IN  /\ last'.err = NoError =>
                         /\ \A n \in Reach(last'.self) : requires_grad[n]
                         /\ trace = FullWalk(last'.self, SeedOf(last'))
                  /\ \A k \in 1..Len(trace) :
                         (/\ trace[k].kind = "fn"
                          /\ ~requires_grad[DependsOn(trace[k].tensor)[trace[k].idx].tensor]
                          /\ ~GradFnRaises(DependsOn(trace[k].tensor)[trace[k].idx].grad_fn))
                             => /\ k = Len(trace)
                                /\ last'.err = UngradableTensor
                                /\ \A j \in 1..k :
                                       trace[j].kind = "acc" =>
                                           /\ grad'[trace[j].tensor] # grad[trace[j].tensor]
                                           /\ grad'[trace[j].tensor] =
                                                  Some(PlusEvents(grad[trace[j].tensor][1], trace,
                                                                  trace[j].tensor))]_vars

\* a backward call from a tracked root got to an untracked dependency and
\* failed with the ungradable-tensor error, the root's grad already added into
C19_Witness ==
    /\ last.op = "backward"
    /\ last.err = UngradableTensor
    /\ requires_grad[last.self]
    /\ Visits(last.trace, last.self) = 1
    /\ grad[last.self] # None
    /\ ~IsZero(grad[last.self][1])
    /\ ~requires_grad[DependsOn(last.trace[Len(last.trace)].tensor)[last.trace[Len(last.trace)].idx].tensor]
====
